---- MODULE Spec2Model ----
(***************************************************************************)
(* mailflow_checker.py: the end-to-end mail probe.  main loads the YAML    *)
(* configuration, then runs run_for_account for every selected account,    *)
(* one after the other: send a probe over SMTP, poll the IMAP mailbox      *)
(* until the probe is found or the deadline passes, optionally delete the  *)
(* probe, log out, and push the outcome to Uptime Kuma.                    *)
(*                                                                         *)
(* The model follows main and run_for_account statement by statement.      *)
(* Every blocking library call (SMTP send, IMAP connect, IMAP search,      *)
(* sleep, STORE/EXPUNGE, logout, HTTP push) is one step whose result is    *)
(* drawn from the results the library can produce.                         *)
(***************************************************************************)
EXTENDS Integers, Sequences, FiniteSets, TLC

VARIABLES
    data,           \* the loaded YAML document: [defaults, accounts]
    args_account,   \* args.account: the --account names (<<>> when not given)
    pc,             \* position of the process in main / run_for_account
    accounts,       \* main: the list returned by parse_config
    idx,            \* main: position of the for loop in accounts (1-based)
    overall_ok,     \* main: overall_ok
    exit_code,      \* value returned by main (NoExit until it returns)
    outcomes,       \* the (ok, msg, ping_ms) tuples main obtained so far
    pushes,         \* the push_kuma calls made so far
    now,            \* time.time(), in seconds since the current pipeline began
    deadline,       \* run_for_account: deadline
    smtp_ms,        \* run_for_account: smtp_ms
    found_id,       \* run_for_account: found_id
    ret,            \* value run_for_account is returning
    pending,        \* exception in flight ("none" when there is none)
    log,            \* what the current pipeline did to the outside world
    sel,            \* imap_search_for_token alone: the SELECT response
    resp,           \* imap_search_for_token alone: the SEARCH responses
    out             \* imap_search_for_token alone: what the call did

vars == <<data, args_account, pc, accounts, idx, overall_ok, exit_code,
          outcomes, pushes, now, deadline, smtp_ms, found_id, ret, pending,
          log, sel, resp, out>>

inputVars == <<data, args_account>>
mainVars == <<accounts, idx, overall_ok, exit_code, outcomes, pushes>>
searchVars == <<sel, resp, out>>

(***************************************************************************)
(* Bounds of the model.                                                    *)
(***************************************************************************)
MaxAccounts == 2    \* accounts in the YAML document
MaxDur == 2         \* seconds an IMAP connect or one poll attempt may take
MaxId == 2          \* message sequence numbers a SEARCH may return
MaxAttempts == 3    \* poll attempts followed per pipeline

(***************************************************************************)
(* Python values.                                                          *)
(***************************************************************************)
NoneVal == "<None>"     \* Python's None where a string is expected
NoId == 0               \* found_id = None
NoLatency == -1         \* smtp_ms = None
NoExit == -1            \* main has not returned
NoDeadline == -1        \* deadline not assigned yet
NoTime == -1            \* no clock reading taken yet
NoRet == [ok |-> FALSE, msg |-> <<"<no return>", "">>, ping |-> NoLatency]

\* bool(v) of an optional string
Truthy(v) == v # NoneVal /\ v # ""

\* str(v): None becomes the four letters "None"
Str(v) == IF v = NoneVal THEN "None" ELSE v

\* a or b
OrElse(a, b) == IF Truthy(a) THEN a ELSE b

Range(s) == {s[i] : i \in 1..Len(s)}

(***************************************************************************)
(* The configuration (the YAML document).                                  *)
(***************************************************************************)
DictKeys == {"smtp", "imap", "poll", "uptime_kuma"}

RECURSIVE deep_merge(_, _)
deep_merge(a, b) ==
    [k \in (DOMAIN a) \cup (DOMAIN b) |->
        IF k \notin DOMAIN b THEN a[k]
        ELSE IF k \in DOMAIN a /\ k \in DictKeys THEN deep_merge(a[k], b[k])
        ELSE b[k]]

\* One account as parse_config builds it from the merged dictionary.
AccountConfig(merged) ==
    [name |-> Str(merged.name),
     smtp |-> [host |-> Str(merged.smtp.host),
               from_addr |-> OrElse(merged.smtp.from, NoneVal),
               to_addr |-> OrElse(merged.smtp.to, NoneVal)],
     imap |-> [host |-> Str(merged.imap.host),
               security |-> merged.imap.security,
               username |-> merged.imap.username,
               password |-> merged.imap.password],
     poll |-> [timeout_seconds |-> merged.poll.timeout_seconds,
               interval_seconds |-> merged.poll.interval_seconds],
     delete_on_success |-> merged.delete_on_success,
     kuma |-> [push_url |-> OrElse(merged.uptime_kuma.push_url, NoneVal)]]

\* the raw accounts parse_config does not skip
Selected(d, selected) ==
    SelectSeq(d.accounts,
              LAMBDA raw : ~(selected # <<>> /\ raw.name \notin Range(selected)))

\* the "Basic validation" of parse_config
BasicValidationFails(a) == ~Truthy(a.smtp.host) \/ ~Truthy(a.imap.host)

\* parse_config: raises (err) or returns the list of accounts (result)
parse_config(d, selected) ==
    LET picked == Selected(d, selected)
        built == [i \in 1..Len(picked) |->
                     AccountConfig(deep_merge(d.defaults, picked[i]))]
    IN  IF d.accounts = <<>>
        THEN [err |-> TRUE, result |-> <<>>]
        ELSE IF \E i \in 1..Len(built) : BasicValidationFails(built[i])
        THEN [err |-> TRUE, result |-> <<>>]
        ELSE IF selected # <<>> /\ built = <<>>
        THEN [err |-> TRUE, result |-> <<>>]
        ELSE [err |-> FALSE, result |-> built]

(***************************************************************************)
(* The configurations examined.  Poll settings, the delete flag, the push  *)
(* URL and the IMAP security settings come from the "defaults" section,    *)
(* the name and the required fields from each account's own section.       *)
(***************************************************************************)
AccountNames == <<"alpha", "beta", "gamma", "delta">>
Filters == {<<>>, <<"alpha">>, <<"beta">>, <<"other">>}
GoodHost == "mail.example"
GoodAddr == "probe@example"
Timeouts == {0, 2}
Intervals == {-1, 0, 1}
Securities == {"ssl", "starttls", "none"}
Credentials == {NoneVal, "secret"}
Latencies == {3, 5}     \* milliseconds a successful send may have taken

RawAccount(n, sh, ih, f, t) ==
    [name |-> n,
     smtp |-> [host |-> sh, from |-> f, to |-> t],
     imap |-> [host |-> ih]]

\* the required fields of an account: complete, or with one of them missing
\* (None) or empty
FieldChoices ==
    {<<GoodHost, GoodHost, GoodAddr, GoodAddr>>,
     <<"", GoodHost, GoodAddr, GoodAddr>>,
     <<GoodHost, NoneVal, GoodAddr, GoodAddr>>,
     <<GoodHost, GoodHost, NoneVal, GoodAddr>>,
     <<GoodHost, GoodHost, GoodAddr, "">>}

\* the account in position i of the document; names are unique
RawAccounts(i) ==
    {RawAccount(AccountNames[i], f[1], f[2], f[3], f[4]) : f \in FieldChoices}

Defaults(sec, cred, T, I, del, url) ==
    [imap |-> [security |-> sec, username |-> cred, password |-> cred],
     poll |-> [timeout_seconds |-> T, interval_seconds |-> I],
     delete_on_success |-> del,
     uptime_kuma |-> [push_url |-> url]]

BaseDefaults == Defaults("ssl", "secret", 1, 1, TRUE, "https://kuma.example/push")

AllDefaults ==
    {Defaults(sec, cred, T, I, del, url) :
        sec \in Securities, cred \in Credentials, T \in Timeouts, I \in Intervals,
        del \in BOOLEAN, url \in {NoneVal, "https://kuma.example/push"}}

\* any list of accounts under the base defaults
ManyAccounts ==
    UNION {{[defaults |-> BaseDefaults, accounts |-> s] :
               s \in {t \in [1..n -> UNION {RawAccounts(i) : i \in 1..n}] :
                         \A i \in 1..n : t[i] \in RawAccounts(i)}} :
              n \in 0..MaxAccounts}

\* one complete account under any defaults
OneAccount ==
    {[defaults |-> d,
      accounts |-> <<RawAccount(AccountNames[1], GoodHost, GoodHost, GoodAddr, GoodAddr)>>] :
        d \in AllDefaults}

EmptyLog ==
    [sends |-> 0,           \* smtp_send calls
     connects |-> 0,        \* imap_connect calls
     opened |-> 0,          \* IMAP sessions opened
     logouts |-> 0,         \* imap.logout calls
     attempts |-> 0,        \* imap_search_for_token calls
     search_errors |-> 0,   \* of which raised
     sleeps |-> 0,          \* time.sleep calls that returned
     stores |-> <<>>,       \* identifiers given to STORE +FLAGS \Deleted
     expunges |-> 0,        \* EXPUNGE commands
     cleanup_failed |-> FALSE,  \* imap_delete raised
     send_error |-> "",     \* class of the exception smtp_send raised
     connect_error |-> "",  \* class of the exception imap_connect raised
     poll_start |-> NoTime,     \* clock when imap_connect returned
     attempt_start |-> NoTime,  \* clock when the last poll attempt began
     attempt_end |-> NoTime]    \* clock when the last poll attempt returned

NoOut == [raised |-> FALSE, found |-> NoId, issued |-> <<>>]

(***************************************************************************)
(* imap_search_for_token.  A SEARCH response is the typ the server gave    *)
(* and the identifiers of data[0].split(); typ "raise" stands for a call   *)
(* that raised (socket error, IMAP4.abort, data[0] = None).                *)
(***************************************************************************)
\* the criteria with the subject search put first
criteria_list_SubjectFirst == <<"SUBJECT", "HEADER Message-ID", "TEXT">>

criteria_list == <<"HEADER Message-ID", "SUBJECT", "TEXT">>

Criteria == {"HEADER Message-ID", "SUBJECT", "TEXT"}

Ids == 1..MaxId

\* lists of distinct message identifiers
IdLists ==
    UNION {{s \in [1..n -> Ids] : \A i, j \in 1..n : i # j => s[i] # s[j]} :
              n \in 0..MaxId}

Responses ==
    {[typ |-> "raise", ids |-> <<>>], [typ |-> "NO", ids |-> <<>>]}
    \cup {[typ |-> "OK", ids |-> s] : s \in IdLists}

SelectResults == {"OK", "NO", "raise"}

\* the oldest identifier taken in place of the newest
latest_First(ids) == ids[1]

\* line 243: ids[-1]
latest(ids) == ids[Len(ids)]

\* the for loop over criteria_list, from criterion i on; r[crit] is the
\* response the server gives to crit
RECURSIVE SearchFrom(_, _)
SearchFrom(i, r) ==
    IF i > Len(criteria_list)
    THEN [raised |-> FALSE, found |-> NoId, issued |-> <<>>]
    ELSE LET crit == criteria_list[i]
             x == r[crit]
         IN  IF x.typ = "raise"
             THEN [raised |-> TRUE, found |-> NoId, issued |-> <<crit>>]
             ELSE IF x.typ = "OK" /\ x.ids # <<>>
             THEN [raised |-> FALSE, found |-> latest(x.ids), issued |-> <<crit>>]
             ELSE LET rest == SearchFrom(i + 1, r)
                  IN  [rest EXCEPT !.issued = <<crit>> \o @]

\* s: the SELECT result, r: the response the server gives to each criterion
imap_search_for_token(s, r) ==
    IF s # "OK"
    THEN [raised |-> TRUE, found |-> NoId, issued |-> <<>>]
    ELSE SearchFrom(1, r)

NoResponse == [typ |-> "NO", ids |-> <<>>]

\* a response decides the attempt: no later criterion is sent
Decides(x) == x.typ = "raise" \/ (x.typ = "OK" /\ x.ids # <<>>)

Deciding == {x \in Responses : Decides(x)}
Passing == Responses \ Deciding

\* The conversations one poll attempt can have with the server: a command
\* that is never sent has no response (written NoResponse).
ResponsesTo(x, y, z) ==
    [c \in Criteria |-> IF c = "HEADER Message-ID" THEN x
                        ELSE IF c = "SUBJECT" THEN y ELSE z]

Conversations ==
    {[sel |-> s, resp |-> ResponsesTo(NoResponse, NoResponse, NoResponse)] :
        s \in SelectResults \ {"OK"}}
    \cup {[sel |-> "OK", resp |-> ResponsesTo(x, NoResponse, NoResponse)] :
             x \in Deciding}
    \cup {[sel |-> "OK", resp |-> ResponsesTo(x, y, NoResponse)] :
             x \in Passing, y \in Deciding}
    \cup {[sel |-> "OK", resp |-> ResponsesTo(x, y, z)] :
             x \in Passing, y \in Passing, z \in Responses}

(***************************************************************************)
(* imap_connect.  lib tells which of the library calls succeed.            *)
(* session: a connection to the server is open when the call ends.         *)
(***************************************************************************)
LibCalls == [open : BOOLEAN, starttls : BOOLEAN, login : BOOLEAN]

imap_connect(cfg, lib) ==
    IF ~lib.open
    THEN [raised |-> TRUE, cls |-> "OSError", session |-> FALSE]
    ELSE IF cfg.security # "ssl" /\ cfg.security = "starttls" /\ ~lib.starttls
    THEN [raised |-> TRUE, cls |-> "IMAP4.abort", session |-> TRUE]
    ELSE IF Truthy(cfg.username) /\ Truthy(cfg.password) /\ ~lib.login
    THEN [raised |-> TRUE, cls |-> "IMAP4.error", session |-> TRUE]
    ELSE [raised |-> FALSE, cls |-> "", session |-> TRUE]

(***************************************************************************)
(* imap_delete.  STORE, then EXPUNGE unless STORE raised.                  *)
(***************************************************************************)
\* imap_delete without its second command
imap_delete_NoExpunge(msgid, store_ok, expunge_ok) ==
    [raised |-> ~store_ok, stores |-> <<msgid>>, expunges |-> 0]

imap_delete(msgid, store_ok, expunge_ok) ==
    IF ~store_ok
    THEN [raised |-> TRUE, stores |-> <<msgid>>, expunges |-> 0]
    ELSE [raised |-> ~expunge_ok, stores |-> <<msgid>>, expunges |-> 1]

(***************************************************************************)
(* smtp_send results: the latency, or the class of the exception raised.   *)
(***************************************************************************)
\* the except clause without socket.error
CaughtBySend_NoSocketError == {"SMTPException"}

\* line 284: except (smtplib.SMTPException, socket.error)
CaughtBySend == {"SMTPException", "OSError"}
\* classes of the exceptions smtp_send can raise: smtplib's own, those of
\* the socket layer, and one of neither family (an address that cannot be
\* encoded)
SendErrors == {"SMTPException", "OSError", "UnicodeEncodeError"}
SendResults == {"ok"} \cup SendErrors

StatusMessage(text, detail) == <<text, detail>>

\* the deadline without the timeout added
Deadline_NoTimeout(t, timeout_seconds) == t

\* line 288: deadline = time.time() + acct.poll.timeout_seconds
Deadline(t, timeout_seconds) == t + timeout_seconds

\* a loop that only a match ends
LoopTest_NoDeadline(t, dl) == TRUE

\* the loop test with <= in place of <
LoopTest_Inclusive(t, dl) == t <= dl

\* line 297: while time.time() < deadline
LoopTest(t, dl) == t < dl

\* the break taken after every search that returns, match or not
poll_try_BreakUnfound(r, prev) ==
    IF r.raised
    THEN [found_id |-> prev, brk |-> FALSE, pending |-> "none"]
    ELSE [found_id |-> r.found, brk |-> TRUE, pending |-> "none"]

\* the try block without its except clause: a search error stays in flight
poll_try_NoExcept(r, prev) ==
    IF r.raised
    THEN [found_id |-> prev, brk |-> FALSE, pending |-> "IMAP4.error"]
    ELSE [found_id |-> r.found, brk |-> r.found # NoId, pending |-> "none"]

\* lines 298-303: what one pass through the try block leaves behind.  r is
\* what imap_search_for_token did, prev the value found_id had.
poll_try(r, prev) ==
    IF r.raised
    THEN [found_id |-> prev, brk |-> FALSE, pending |-> "none"]
    ELSE [found_id |-> r.found, brk |-> r.found # NoId, pending |-> "none"]

\* imap_delete called without the try/except around it
cleanup_try_NoExcept(c) == IF c.raised THEN "IMAP4.error" ELSE "none"

\* lines 310-313: the exception a failed imap_delete leaves in flight
cleanup_try(c) == "none"

\* a failed connection tried again
connect_try_Retry(c, smtp, prev) ==
    IF c.raised
    THEN [pc |-> "connect", ret |-> prev]
    ELSE [pc |-> "while", ret |-> prev]

\* lines 289-293: where a call of imap_connect leaves run_for_account, and
\* the tuple it returns when the call raised; prev is the value ret had
connect_try(c, smtp, prev) ==
    IF c.raised
    THEN [pc |-> "returned",
          ret |-> [ok |-> FALSE,
                   msg |-> StatusMessage("IMAP connect failed:", c.cls),
                   ping |-> smtp]]
    ELSE [pc |-> "while", ret |-> prev]

\* the success outcome built without the latency
total_ms_None(smtp) == NoLatency

\* lines 315-317: total_ms of the success outcome
total_ms(smtp) == IF smtp # NoLatency THEN smtp ELSE NoLatency

\* the loop without its pause
sleep_NoPause(t, interval_seconds) == t

\* line 304: the clock when time.sleep(interval) returns
sleep(t, interval_seconds) == t + interval_seconds

Init ==
    /\ data \in ManyAccounts \cup OneAccount
    /\ args_account \in Filters
    /\ data \in OneAccount => args_account = <<>>
    /\ pc = "parse"
    /\ accounts = <<>>
    /\ idx = 1
    /\ overall_ok = TRUE
    /\ exit_code = NoExit
    /\ outcomes = <<>>
    /\ pushes = <<>>
    /\ now = 0
    /\ deadline = NoDeadline
    /\ smtp_ms = NoLatency
    /\ found_id = NoId
    /\ ret = NoRet
    /\ pending = "none"
    /\ log = EmptyLog
    /\ sel = "OK"
    /\ resp = ResponsesTo(NoResponse, NoResponse, NoResponse)
    /\ out = NoOut

pipeVars == <<now, deadline, smtp_ms, found_id, ret, pending, log>>

acct == accounts[idx]

\* main, lines 336-342: parse_config, "return 2" on any exception
LoadConfig ==
    /\ pc = "parse"
    /\ LET r == parse_config(data, args_account)
       IN  IF r.err
           THEN /\ exit_code' = 2
                /\ pc' = "exit"
                /\ UNCHANGED accounts
           ELSE /\ accounts' = r.result
                /\ pc' = "for"
                /\ UNCHANGED exit_code
    /\ overall_ok' = TRUE
    /\ UNCHANGED <<inputVars, idx, outcomes, pushes, pipeVars, searchVars>>

\* main, lines 343-345 and 356: the head of the for loop
ForLoop ==
    /\ pc = "for"
    /\ IF idx <= Len(accounts)
       THEN /\ pc' = "run"
            /\ now' = 0
            /\ deadline' = NoDeadline
            /\ smtp_ms' = NoLatency
            /\ found_id' = NoId
            /\ ret' = NoRet
            /\ log' = EmptyLog
            /\ UNCHANGED exit_code
       ELSE /\ pc' = "exit"
            /\ exit_code' = IF overall_ok THEN 0 ELSE 1
            /\ UNCHANGED <<now, deadline, smtp_ms, found_id, ret, log>>
    /\ UNCHANGED <<inputVars, accounts, idx, overall_ok, outcomes, pushes, pending,
                   searchVars>>

\* run_for_account, lines 269-276
MissingField(a) ==
    \/ ~Truthy(a.smtp.from_addr)
    \/ ~Truthy(a.smtp.to_addr)
    \/ ~Truthy(a.smtp.host)
    \/ ~Truthy(a.imap.host)

\* run_for_account, lines 268-278: the field check; nothing in main catches
\* the ValueError
Validate ==
    /\ pc = "run"
    /\ IF MissingField(acct)
       THEN /\ pending' = "ValueError: missing required field"
            /\ pc' = "raised"
       ELSE /\ pc' = "send"
            /\ UNCHANGED pending
    /\ UNCHANGED <<inputVars, mainVars, now, deadline, smtp_ms, found_id, ret, log,
                   searchVars>>

\* run_for_account, lines 280-288: smtp_send, and the deadline on success
Send ==
    /\ pc = "send"
    /\ \E r \in SendResults, ms \in Latencies :
        /\ log' = [log EXCEPT !.sends = @ + 1,
                              !.send_error = IF r = "ok" THEN "" ELSE r]
        /\ IF r = "ok"
           THEN /\ smtp_ms' = ms
                /\ deadline' = Deadline(now, acct.poll.timeout_seconds)
                /\ pc' = "connect"
                /\ UNCHANGED <<ret, pending>>
           ELSE IF r \in CaughtBySend
           THEN /\ ret' = [ok |-> FALSE, msg |-> StatusMessage("SMTP failed:", r),
                           ping |-> smtp_ms]
                /\ pc' = "returned"
                /\ UNCHANGED <<smtp_ms, deadline, pending>>
           ELSE /\ pending' = r
                /\ pc' = "raised"
                /\ UNCHANGED <<smtp_ms, deadline, ret>>
    /\ UNCHANGED <<inputVars, mainVars, now, found_id, searchVars>>

\* run_for_account, lines 289-293: imap_connect
Connect ==
    /\ pc = "connect"
    /\ \E lib \in LibCalls, d \in 0..MaxDur :
        LET c == imap_connect(acct.imap, lib)
            t == connect_try(c, smtp_ms, ret)
        IN  /\ now' = now + d
            /\ log' = [log EXCEPT !.connects = @ + 1,
                                  !.opened = @ + (IF c.session THEN 1 ELSE 0),
                                  !.connect_error = c.cls,
                                  !.poll_start = now + d]
            /\ ret' = t.ret
            /\ pc' = t.pc
    /\ UNCHANGED <<inputVars, mainVars, deadline, smtp_ms, found_id, pending,
                   searchVars>>

\* run_for_account, lines 297-303: the loop test holds and one poll attempt
\* is made; the search returns d seconds after the test
PollAttempt ==
    /\ pc = "while"
    /\ LoopTest(now, deadline)
    /\ log.attempts < MaxAttempts
    /\ \E c \in Conversations, d \in 0..MaxDur :
        LET r == imap_search_for_token(c.sel, c.resp)
            t == poll_try(r, found_id)
        IN  /\ now' = now + d
            /\ found_id' = t.found_id
            /\ pending' = t.pending
            /\ pc' = IF t.pending # "none" THEN "finally"
                     ELSE IF t.brk THEN "cleanup" ELSE "sleep"
            /\ log' = [log EXCEPT !.attempts = @ + 1,
                                  !.search_errors = @ + (IF r.raised THEN 1 ELSE 0),
                                  !.attempt_start = now,
                                  !.attempt_end = now + d]
    /\ UNCHANGED <<inputVars, mainVars, deadline, smtp_ms, ret, searchVars>>

\* run_for_account, line 304: time.sleep raises ValueError on a negative length
Sleep ==
    /\ pc = "sleep"
    /\ IF acct.poll.interval_seconds < 0
       THEN /\ pending' = "ValueError: sleep length must be non-negative"
            /\ pc' = "finally"
            /\ UNCHANGED <<now, log>>
       ELSE /\ now' = sleep(now, acct.poll.interval_seconds)
            /\ log' = [log EXCEPT !.sleeps = @ + 1]
            /\ pc' = "while"
            /\ UNCHANGED pending
    /\ UNCHANGED <<inputVars, mainVars, deadline, smtp_ms, found_id, ret, searchVars>>

\* run_for_account, lines 297 and 305-307: the loop test fails, nothing found
TimedOut ==
    /\ pc = "while"
    /\ ~LoopTest(now, deadline)
    /\ found_id = NoId
    /\ ret' = [ok |-> FALSE,
               msg |-> StatusMessage("IMAP timeout: message not found", ""),
               ping |-> smtp_ms]
    /\ pc' = "finally"
    /\ UNCHANGED <<inputVars, mainVars, now, deadline, smtp_ms, found_id, pending,
                   log, searchVars>>

\* run_for_account, lines 309-319: optional imap_delete, then return True, "OK"
Cleanup ==
    /\ pc = "cleanup"
    /\ \E store_ok, expunge_ok \in BOOLEAN :
        LET c == imap_delete(found_id, store_ok, expunge_ok)
            e == IF acct.delete_on_success THEN cleanup_try(c) ELSE "none"
        IN  /\ log' = IF acct.delete_on_success
                      THEN [log EXCEPT !.stores = @ \o c.stores,
                                       !.expunges = @ + c.expunges,
                                       !.cleanup_failed = c.raised]
                      ELSE log
            /\ pending' = e
            /\ ret' = IF e # "none" THEN ret
                      ELSE [ok |-> TRUE, msg |-> StatusMessage("OK", ""),
                            ping |-> total_ms(smtp_ms)]
    /\ pc' = "finally"
    /\ UNCHANGED <<inputVars, mainVars, now, deadline, smtp_ms, found_id, searchVars>>

\* run_for_account, lines 320-324: imap.logout, whose own failure is swallowed;
\* then the return, or the exception in flight goes on to main
Finally ==
    /\ pc = "finally"
    /\ \E logout_ok \in BOOLEAN :
        log' = [log EXCEPT !.logouts = @ + 1]
    /\ pc' = IF pending # "none" THEN "raised" ELSE "returned"
    /\ UNCHANGED <<inputVars, mainVars, now, deadline, smtp_ms, found_id, ret,
                   pending, searchVars>>

\* push_kuma: the GET is sent; a failure is logged inside push_kuma
push_kuma(account, status, delivered) ==
    [account |-> account, status |-> status, delivered |-> delivered]

\* push_kuma called with neither its own try/except nor main's
push_try_NoExcept(delivered) == IF delivered THEN "none" ELSE "RequestException"

\* lines 259-264 and 348-351: the exception a failed push leaves in flight
push_try(delivered) == "none"

\* main, lines 345-354: the tuple is received, overall_ok updated, the
\* outcome pushed when a push URL is configured
Report ==
    /\ pc = "returned"
    /\ outcomes' = Append(outcomes, [ok |-> ret.ok, msg |-> ret.msg[1]])
    /\ overall_ok' = (overall_ok /\ ret.ok)
    /\ IF Truthy(acct.kuma.push_url)
       THEN \E delivered \in BOOLEAN :
               /\ pushes' = Append(pushes,
                                   push_kuma(idx, IF ret.ok THEN "up" ELSE "down",
                                             delivered))
               /\ pending' = push_try(delivered)
       ELSE UNCHANGED <<pushes, pending>>
    /\ IF pending' # "none"
       THEN pc' = "raised" /\ UNCHANGED idx
       ELSE pc' = "for" /\ idx' = idx + 1
    /\ UNCHANGED <<inputVars, accounts, exit_code, now, deadline, smtp_ms, found_id,
                   ret, log, searchVars>>

Next ==
    \/ LoadConfig
    \/ ForLoop
    \/ Validate
    \/ Send
    \/ Connect
    \/ PollAttempt
    \/ Sleep
    \/ TimedOut
    \/ Cleanup
    \/ Finally
    \/ Report

Spec == Init /\ [][Next]_vars

(***************************************************************************)
(* imap_search_for_token on its own: one call, for every SELECT result and *)
(* every response the server can give to each of the three criteria.       *)
(***************************************************************************)
SearchInit ==
    /\ sel \in SelectResults
    /\ resp \in [Criteria -> Responses]
    /\ out = NoOut
    /\ pc = "search_call"
    /\ data = [defaults |-> BaseDefaults, accounts |-> <<>>]
    /\ args_account = <<>>
    /\ accounts = <<>>
    /\ idx = 1
    /\ overall_ok = TRUE
    /\ exit_code = NoExit
    /\ outcomes = <<>>
    /\ pushes = <<>>
    /\ now = 0
    /\ deadline = NoDeadline
    /\ smtp_ms = NoLatency
    /\ found_id = NoId
    /\ ret = NoRet
    /\ pending = "none"
    /\ log = EmptyLog

SearchCall ==
    /\ pc = "search_call"
    /\ out' = imap_search_for_token(sel, resp)
    /\ pc' = "search_done"
    /\ UNCHANGED <<inputVars, mainVars, pipeVars, sel, resp>>

\* run_for_account, lines 298-304, around that one call: the break when
\* the call returned an identifier, the way to time.sleep when it did not
SearchLoopBody ==
    /\ pc = "search_done"
    /\ LET t == poll_try(out, found_id)
       IN  /\ found_id' = t.found_id
           /\ pc' = IF t.brk THEN "search_break" ELSE "search_sleep"
    /\ UNCHANGED <<inputVars, mainVars, now, deadline, smtp_ms, ret, pending, log,
                   searchVars>>

SearchNext ==
    \/ SearchCall
    \/ SearchLoopBody

SearchSpec == SearchInit /\ [][SearchNext]_vars

TypeOK ==
    /\ pc \in {"parse", "for", "run", "send", "connect", "while", "sleep",
               "cleanup", "finally", "returned", "exit", "raised",
               "search_call", "search_done", "search_break", "search_sleep"}
    /\ exit_code \in {NoExit, 0, 1, 2}

(***************************************************************************)
(* Properties.                                                             *)
(***************************************************************************)
TimeoutText == "IMAP timeout: message not found"
PipelineOver == pc \in {"returned", "raised"}
TimedOutState == pc \in {"finally", "returned"} /\ ret.msg[1] = TimeoutText
LastOf(s) == s[Len(s)]
Matches(x) == x.typ = "OK" /\ x.ids # <<>>

\* C1: no error inside one account's pipeline leaves main: main never ends
\* with an exception, and when it returns after loading the configuration it
\* has obtained an outcome for every selected account.
C1_AccountIsolation ==
    /\ pc # "raised"
    /\ (pc = "exit" /\ exit_code # 2 => Len(outcomes) = Len(accounts))

\* C2: when main has ended, its exit code is 0 exactly if the configuration
\* loaded and every selected account succeeded, 1 if the configuration
\* loaded and some selected account failed, and 2 with no pipeline run if
\* the configuration did not load.
C2_ExitContract ==
    pc \in {"exit", "raised"} =>
        LET loaded == ~parse_config(data, args_account).err
            failed == pc = "raised" \/ \E i \in 1..Len(outcomes) : ~outcomes[i].ok
            allok == /\ Len(outcomes) = Len(accounts)
                     /\ \A i \in 1..Len(outcomes) : outcomes[i].ok
        IN  /\ exit_code = 0 <=> (loaded /\ allok)
            /\ loaded /\ failed => exit_code = 1
            /\ ~loaded => exit_code = 2 /\ outcomes = <<>> /\ log = EmptyLog

\* C3 as claimed: success implies the probe was sent and the matching search
\* returned at an instant strictly before the deadline.
C3_LocatedBeforeDeadline ==
    pc \in {"finally", "returned"} /\ ret.ok => /\ log.sends = 1 /\ log.send_error = "" /\ smtp_ms # NoLatency
              /\ found_id # NoId
              /\ log.attempt_end < deadline

\* C3 amended: success implies the probe was sent and was located by a poll
\* attempt that began strictly before the deadline.
C3_LocatedByAttemptBegunBeforeDeadline ==
    pc \in {"finally", "returned"} /\ ret.ok => /\ log.sends = 1 /\ log.send_error = "" /\ smtp_ms # NoLatency
              /\ found_id # NoId
              /\ log.attempt_start >= 0
              /\ log.attempt_start < deadline
              /\ deadline = acct.poll.timeout_seconds

\* a success whose matching search returned at or after the deadline
C3_Witness ==
    pc = "returned" /\ ret.ok /\ log.attempt_end >= deadline

\* the time from t0 to the timeout lies in [T, T + I]
InWindow(t0) ==
    /\ now - t0 >= acct.poll.timeout_seconds
    /\ now - t0 <= acct.poll.timeout_seconds + acct.poll.interval_seconds

\* C4 as claimed: with interval I >= 0, the timeout outcome is reached no
\* earlier than T and no later than T + I after the start of polling, be
\* that start the instant the deadline was fixed or the instant the mailbox
\* connection was ready.
C4_TimeoutWithinTandTplusI ==
    TimedOutState /\ acct.poll.interval_seconds >= 0 =>
        InWindow(0) \/ InWindow(log.poll_start)

\* C4 amended: the timeout outcome is reached no earlier than T after the
\* deadline was fixed (the connection time counts against T); without any
\* poll attempt it is reached when the connection returns, otherwise the
\* last attempt began before the deadline and the outcome comes one
\* interval after that attempt returned, so that not counting the time the
\* last search took it is no later than T + I.
C4_TimeoutWindow ==
    TimedOutState =>
        /\ deadline = acct.poll.timeout_seconds
        /\ now >= acct.poll.timeout_seconds
        /\ IF log.attempts = 0
           THEN now = log.poll_start
           ELSE /\ log.attempt_start < acct.poll.timeout_seconds
                /\ now = log.attempt_end + acct.poll.interval_seconds
                /\ now - (log.attempt_end - log.attempt_start)
                     <= acct.poll.timeout_seconds + acct.poll.interval_seconds

\* a timeout later than T + I after the deadline was fixed, after two attempts
C4_Witness ==
    /\ pc = "returned"
    /\ ret.msg[1] = TimeoutText
    /\ log.attempts = 2
    /\ now > acct.poll.timeout_seconds + acct.poll.interval_seconds

C6_StrategyOrder ==
    pc = "search_done" =>
        /\ \E n \in 0..3 :
              out.issued = SubSeq(<<"HEADER Message-ID", "SUBJECT", "TEXT">>, 1, n)
        /\ sel = "OK" /\ Matches(resp["HEADER Message-ID"])
              => /\ out.found \in Range(resp["HEADER Message-ID"].ids)
                 /\ out.issued = <<"HEADER Message-ID">>
        /\ out.found # NoId
              => /\ out.issued # <<>>
                 /\ out.found \in Range(resp[LastOf(out.issued)].ids)
                 /\ \A i \in 1..(Len(out.issued) - 1) : ~Matches(resp[out.issued[i]])

\* all three searches would match, with different identifiers
C6_Witness ==
    /\ pc = "search_done"
    /\ sel = "OK"
    /\ \A c \in Criteria : Matches(resp[c])
    /\ LastOf(resp["SUBJECT"].ids) # LastOf(resp["HEADER Message-ID"].ids)
    /\ out.found = LastOf(resp["HEADER Message-ID"].ids)

\* C7: once a match is found the pipeline's verdict is (True, "OK") with no
\* exception in flight, whatever imap_delete did; and the exit code main
\* returns after the loop depends on the verdicts alone.
C7_CleanupBestEffort ==
    /\ found_id # NoId /\ pc \in {"finally", "returned"}
          => ret.ok /\ ret.msg = <<"OK", "">> /\ pending = "none"
    /\ pc = "exit" /\ exit_code # 2
          => (exit_code = 0 <=> \A i \in 1..Len(outcomes) : outcomes[i].ok)

\* the EXPUNGE failed after the STORE, and the verdict is success
C7_Witness ==
    /\ pc = "returned"
    /\ ret.ok
    /\ log.cleanup_failed
    /\ log.expunges = 1

C9_SessionReleased ==
    PipelineOver => log.logouts = log.opened

\* a required field of the raw account is missing or empty
RequiredFieldMissing(raw) ==
    \/ ~Truthy(raw.smtp.host)
    \/ ~Truthy(raw.imap.host)
    \/ ~Truthy(raw.smtp.from)
    \/ ~Truthy(raw.smtp.to)

ConfigInvalid ==
    LET picked == Selected(data, args_account)
    IN  \/ data.accounts = <<>>
        \/ picked = <<>>
        \/ \E i \in 1..Len(picked) : RequiredFieldMissing(picked[i])

\* C10: with an invalid configuration main returns 2 and no pipeline sends,
\* connects or pushes; every account handed to run_for_account has its
\* required fields.
C10_ValidationPrecedesCore ==
    /\ ConfigInvalid => /\ pc \in {"parse", "exit"}
                        /\ pc = "exit" => exit_code = 2
                        /\ pushes = <<>>
                        /\ log.sends = 0 /\ log.connects = 0
    /\ pc = "run" => ~MissingField(acct)

\* C11: the probe is sent, and the send has returned without error, before
\* the mailbox connection and before the first poll attempt; the connection
\* precedes every poll attempt.  STORE and EXPUNGE are issued only after a
\* poll attempt has matched, STORE for the identifier that attempt returned
\* and EXPUNGE only after STORE, and both before the logout of the session.
C11_StepOrder ==
    /\ [](/\ log.connects > 0 =>
               log.sends = 1 /\ log.send_error = "" /\ smtp_ms # NoLatency
          /\ log.attempts > 0 => log.connects = 1 /\ log.poll_start # NoTime
          /\ log.stores # <<>> =>
               log.attempts > 0 /\ found_id # NoId /\ log.stores = <<found_id>>
          /\ log.expunges > 0 => log.stores # <<>>)
    /\ [][log'.connects > log.connects =>
               log.sends = 1 /\ log.send_error = "" /\ log.attempts = 0]_vars
    /\ [][log'.attempts > log.attempts => log.connects = 1]_vars
    /\ [][Len(log'.stores) > Len(log.stores) \/ log'.expunges > log.expunges =>
               /\ found_id # NoId /\ log.attempt_end # NoTime
               /\ log'.stores = <<found_id>>
               /\ log.logouts = 0 /\ log'.logouts = 0]_vars
    /\ [][log'.logouts > log.logouts =>
               log'.stores = log.stores /\ log'.expunges = log.expunges]_vars

C11_Witness ==
    /\ pc = "returned" /\ ret.ok
    /\ log.sends = 1 /\ log.connects = 1 /\ log.attempts > 1
    /\ log.stores = <<found_id>> /\ log.expunges = 1 /\ log.logouts = 1

\* C12 as claimed (one clock tick standing for 5 s, so T = 2 and I = 1 are
\* the 10 s and 5 s of the claim): when the connection succeeded and no
\* search matched, the pipeline times out after at least T/I and at most
\* T/I + 1 poll attempts, whenever I > 0 divides T.
C12_AttemptCount ==
    TimedOutState /\ acct.poll.interval_seconds > 0
                  /\ acct.poll.timeout_seconds % acct.poll.interval_seconds = 0 =>
        /\ ~ret.ok
        /\ log.attempts >= acct.poll.timeout_seconds \div acct.poll.interval_seconds
        /\ log.attempts <= acct.poll.timeout_seconds \div acct.poll.interval_seconds + 1

\* C12, amended: when I > 0 divides T, a pipeline that times out has made at
\* most T/I poll attempts and returns (false, "IMAP timeout: message not
\* found"); it has made exactly T/I when the connection and the searches
\* took no time, and fewer, down to none, when they used up the window.
C12_AtMostTOverIAttempts ==
    TimedOutState /\ acct.poll.interval_seconds > 0
                  /\ acct.poll.timeout_seconds % acct.poll.interval_seconds = 0 =>
        /\ ~ret.ok
        /\ log.attempts <= acct.poll.timeout_seconds \div acct.poll.interval_seconds
        /\ (now = log.sleeps * acct.poll.interval_seconds =>
              log.attempts = acct.poll.timeout_seconds \div acct.poll.interval_seconds)
        /\ log.sleeps = log.attempts

C12_Witness ==
    /\ TimedOutState /\ pc = "returned"
    /\ acct.poll.timeout_seconds = 2 /\ acct.poll.interval_seconds = 1
    /\ log.attempts = 2 /\ now = 2

\* C13: when main has ended, every selected account with a push URL has had
\* exactly one push, issued after its pipeline's outcome, with status "up"
\* exactly if that outcome was a success; an account without a push URL has
\* had none.
C13_OnePushPerAccount ==
    /\ \A k \in 1..Len(pushes) : pushes[k].account <= Len(outcomes)
    /\ pc \in {"exit", "raised"} =>
         \A i \in 1..Len(accounts) :
            LET mine == {k \in 1..Len(pushes) : pushes[k].account = i}
            IN  IF Truthy(accounts[i].kuma.push_url)
                THEN /\ Cardinality(mine) = 1
                     /\ \A k \in mine :
                          pushes[k].status = "up" <=> outcomes[i].ok
                ELSE mine = {}

\* C14: a push that fails changes nothing but the push itself: the step
\* that records an outcome and pushes it leaves the outcome, the verdict,
\* the exception state and the position in the account list as they would
\* be had the push been delivered, and main goes on to the next account;
\* the exit code is 0 exactly if every outcome was a success, delivered
\* pushes or not.
C14_PushFailureIgnored ==
    /\ [][pc = "returned" =>
            /\ outcomes' = Append(outcomes, [ok |-> ret.ok, msg |-> ret.msg[1]])
            /\ overall_ok' = (overall_ok /\ ret.ok)
            /\ pending' = "none"
            /\ idx' = idx + 1
            /\ pc' = "for"
            /\ exit_code' = exit_code]_vars
    /\ [](pc = "exit" /\ exit_code # 2 =>
            /\ Len(outcomes) = Len(accounts)
            /\ exit_code = 0 <=> \A i \in 1..Len(outcomes) : outcomes[i].ok)

C14_Witness ==
    /\ pc = "exit" /\ exit_code = 0
    /\ Len(outcomes) = 2
    /\ Len(pushes) = 2 /\ ~pushes[1].delivered /\ pushes[2].delivered

\* the account at idx is inside run_for_account, or has just left it
InPipeline ==
    pc \in {"run", "send", "connect", "while", "sleep", "cleanup", "finally",
            "returned", "raised"}

\* C15 as claimed: in the outcome of a pipeline, STORE followed by EXPUNGE
\* has been issued exactly if a match was found and delete_on_success is
\* true, STORE for the identifier the search returned; with
\* delete_on_success false or a failed outcome neither has been issued.
C15_StoreAndExpungeIffMatch ==
    pc = "returned" =>
        /\ (found_id # NoId /\ acct.delete_on_success) <=>
              (log.stores # <<>> /\ log.expunges = 1)
        /\ log.stores # <<>> => log.stores = <<found_id>>
        /\ ~acct.delete_on_success \/ ~ret.ok =>
              log.stores = <<>> /\ log.expunges = 0

\* C15, amended: one STORE is issued exactly if a match was found and
\* delete_on_success is true, for the identifier the search returned; one
\* EXPUNGE follows it unless the STORE raised, in which case none is
\* issued; with delete_on_success false or a failed outcome neither is ever
\* issued.
C15_StoreIffMatch ==
    InPipeline =>
        /\ log.stores # <<>> =>
              /\ acct.delete_on_success /\ found_id # NoId
              /\ log.stores = <<found_id>>
        /\ log.expunges \in {0, 1}
        /\ log.expunges = 1 => log.stores # <<>>
        /\ log.stores # <<>> /\ log.expunges = 0 => log.cleanup_failed
        /\ pc = "returned" =>
              /\ (found_id # NoId /\ acct.delete_on_success) <=> log.stores # <<>>
              /\ ~ret.ok => log.stores = <<>> /\ log.expunges = 0

C15_Witness ==
    /\ pc = "returned" /\ ret.ok /\ acct.delete_on_success
    /\ log.stores = <<found_id>> /\ found_id = MaxId
    /\ log.expunges = 0

\* C16: the latency smtp_send measured is not changed by anything that
\* follows in the pipeline, and every outcome run_for_account returns after
\* a successful send carries it: connect failure, timeout, and success with
\* or without a cleanup failure; the outcome of a failed send carries none.
C16_LatencyCarried ==
    /\ [](pc = "returned" =>
            IF log.send_error = ""
            THEN smtp_ms \in Latencies /\ ret.ping = smtp_ms
            ELSE ret.ping = NoLatency)
    /\ [][InPipeline /\ smtp_ms # NoLatency => smtp_ms' = smtp_ms]_vars
    /\ [][pc = "returned" => ret' = ret]_vars

C16_Witness ==
    /\ pc = "returned" /\ ret.ok
    /\ log.cleanup_failed /\ log.expunges = 0
    /\ ret.ping = 5

\* C17: one pipeline calls smtp_send at most once and imap_connect at most
\* once; when imap_connect raised (opening the connection, STARTTLS or
\* login), the pipeline has returned success = false with the status message
\* "IMAP connect failed:" and the class of the error, and has issued no
\* select, no search and no cleanup command.
C17_ConnectFailureTerminal ==
    InPipeline =>
        /\ log.sends <= 1
        /\ log.connects <= 1
        /\ log.connect_error # "" =>
              /\ pc = "returned"
              /\ ~ret.ok
              /\ ret.msg = StatusMessage("IMAP connect failed:", log.connect_error)
              /\ log.attempts = 0 /\ found_id = NoId
              /\ log.stores = <<>> /\ log.expunges = 0

C17_Witness ==
    /\ pc = "returned"
    /\ log.connect_error = "IMAP4.error"
    /\ log.sends = 1 /\ log.connects = 1

\* C18: when a strategy's search returns a non-empty list and no earlier
\* strategy decided the attempt, imap_search_for_token returns the last
\* identifier of that list and has issued no later strategy; an identifier
\* it returns is always the last of the list of the last strategy issued.
\* The poll loop then takes the break with that identifier, and goes to
\* the sleep only when no identifier was returned.
C18_LastIdentifierAndBreak ==
    pc \in {"search_done", "search_break", "search_sleep"} =>
        /\ \A i \in 1..Len(criteria_list) :
              (/\ sel = "OK"
               /\ Matches(resp[criteria_list[i]])
               /\ \A j \in 1..(i - 1) : ~Decides(resp[criteria_list[j]])) =>
                  /\ ~out.raised
                  /\ out.found = LastOf(resp[criteria_list[i]].ids)
                  /\ out.issued = SubSeq(criteria_list, 1, i)
        /\ out.found # NoId =>
              /\ Matches(resp[LastOf(out.issued)])
              /\ out.found = LastOf(resp[LastOf(out.issued)].ids)
        /\ pc = "search_break" => out.found # NoId /\ found_id = out.found
        /\ pc = "search_sleep" => out.found = NoId /\ found_id = NoId

C18_Witness ==
    /\ pc = "search_break"
    /\ sel = "OK"
    /\ ~Decides(resp["HEADER Message-ID"])
    /\ resp["SUBJECT"].ids = <<2, 1>>
    /\ Matches(resp["TEXT"])
    /\ out.issued = <<"HEADER Message-ID", "SUBJECT">>
    /\ found_id = 1

\* C19: an invocation of run_for_account with timeout >= 0 and interval >= 0
\* does not end with an exception: when it is over it has returned one of
\* the four classified outcomes (send failure, connect failure, timeout,
\* match found), and it has returned once: the accounts before it have one
\* outcome each and it has none yet.
C19_OneClassifiedOutcome ==
    InPipeline /\ acct.poll.timeout_seconds >= 0
               /\ acct.poll.interval_seconds >= 0 =>
        /\ pc # "raised"
        /\ Len(outcomes) = idx - 1
        /\ pc = "returned" =>
              \/ ~ret.ok /\ ret.msg[1] = "SMTP failed:" /\ log.send_error # ""
              \/ ~ret.ok /\ ret.msg[1] = "IMAP connect failed:" /\ log.connect_error # ""
              \/ ~ret.ok /\ ret.msg[1] = TimeoutText /\ found_id = NoId
              \/ ret.ok /\ ret.msg[1] = "OK" /\ found_id # NoId

\* C20 as claimed: the deadline exists exactly when the send has returned
\* without error, is the clock at that return (0) plus the timeout whatever
\* the connection, the searches and the sleeps took, and exists before the
\* connection is attempted; a poll attempt begins only at a clock strictly
\* before the deadline; a timeout is returned only at a clock at or past
\* the deadline with nothing found, and after at least one poll attempt.
C20_DeadlineDiscipline ==
    InPipeline =>
        /\ deadline # NoDeadline <=> (log.sends = 1 /\ log.send_error = "")
        /\ deadline # NoDeadline => deadline = acct.poll.timeout_seconds
        /\ log.connects > 0 => deadline # NoDeadline
        /\ log.attempts > 0 => log.attempt_start < deadline
        /\ TimedOutState =>
              /\ now >= deadline /\ found_id = NoId
              /\ log.attempts >= 1

\* C20, amended: as above, except that a timeout is preceded by a poll
\* attempt exactly when imap_connect returned at a clock strictly before
\* the deadline; a connection that returns at or after the deadline (the
\* timeout is 0, or the connection took that long) is followed by the
\* timeout with no poll attempt.
C20_DeadlineFixedAtSend ==
    InPipeline =>
        /\ deadline # NoDeadline <=> (log.sends = 1 /\ log.send_error = "")
        /\ deadline # NoDeadline => deadline = acct.poll.timeout_seconds
        /\ log.connects > 0 => deadline # NoDeadline
        /\ log.attempts > 0 => log.attempt_start < deadline
        /\ TimedOutState =>
              /\ now >= deadline /\ found_id = NoId
              /\ log.attempts >= 1 <=> log.poll_start < deadline

C20_Witness ==
    /\ pc = "returned" /\ TimedOutState
    /\ acct.poll.timeout_seconds = 2
    /\ log.connects = 1 /\ log.connect_error = ""
    /\ log.poll_start = 2
    /\ log.attempts = 0
====
